---------------------------- MODULE Spec2Model ----------------------------
(***************************************************************************)
(* Model of the input-to-report pipeline of the 88-key USB HID keyboard    *)
(* (src/src/main.c): the key code translation, the 6-key rollover array,   *)
(* the modifier byte, the 8-byte boot report, the kb_msgq event queue, the *)
(* input callback that fills it, the main loop that drains it and the      *)
(* callbacks the HID class calls (get report, set report, idle, ready).    *)
(*                                                                         *)
(* The numeric values of INPUT_KEY_*, HID_KEY_* and HID_KBD_MODIFIER_* are *)
(* those of the Zephyr headers main.c includes (input-event-codes.h and    *)
(* usb/class/hid.h); main.c only names them.                               *)
(***************************************************************************)
EXTENDS Integers, Sequences, FiniteSets

VARIABLES
    pressed_keys,     \* uint8_t pressed_keys[MAX_PRESSED_KEYS]
    pressed_count,    \* uint8_t pressed_count
    modifier_state,   \* uint8_t modifier_state
    report,           \* the UDC buffer report[KB_REPORT_COUNT]
    fold_result,      \* the branch the last process_key_event took
    last_press,       \* history: per modifier key, whether the most recent
                      \* event folded for it was a press
    built,            \* history: the report as the last completed
                      \* build_hid_report left it
    kb_msgq,          \* the message queue, oldest event first
    pc,               \* where the main loop is
    kb_evt,           \* main's local struct kb_event
    kb_ready,         \* static bool kb_ready
    suspended,        \* what usbd_is_suspended() answers
    tx_op,            \* what the last loop iteration did towards the transport
    tx_report,        \* the bytes last given to hid_device_submit_report
    tx_ret,           \* main's ret: what the last usbd_wakeup_request or
                      \* hid_device_submit_report returned
    tx_failed,        \* history: a hid_device_submit_report has failed
    accepted,         \* history: the events k_msgq_put accepted, in order
    folded,           \* history: the events the main loop folded, in order
    dropped,          \* history: how many events k_msgq_put refused
    put_ret,          \* what the last k_msgq_put of input_cb returned
    key_hist,         \* history of the keys of SpecHeld: held, the codes
                      \* whose last event was a press; refused, whether a
                      \* press has been refused for want of room
    build_i,          \* the loop index of build_hid_report while it runs
    get_call,         \* the last kb_get_report call: type, len, the value
                      \* returned, the caller's buffer after it, and, as
                      \* they were then, built and the report of the state
    set_call,         \* the last kb_set_report call: type, buf[0], the value
                      \* returned
    led_pins,         \* the level last set on each LED line
    kb_duration       \* static uint32_t kb_duration

coreVars == <<pressed_keys, pressed_count, modifier_state, report>>
foldVars == <<fold_result, last_press, built>>
txVars   == <<tx_op, tx_report, tx_ret, tx_failed>>
loopVars == <<pc, kb_evt, txVars, folded, build_i>>
chanVars == <<kb_msgq, accepted, dropped, put_ret, key_hist>>
usbVars  == <<kb_ready, suspended>>
hidVars  == <<get_call, set_call, led_pins, kb_duration>>
vars == <<pressed_keys, pressed_count, modifier_state, report, fold_result,
          last_press, built, kb_msgq, pc, kb_evt, kb_ready, suspended,
          tx_op, tx_report, tx_ret, tx_failed, accepted, folded, dropped,
          put_ret, key_hist, build_i,
          get_call, set_call, led_pins, kb_duration>>

----------------------------------------------------------------------------
(* Program constants *)

MAX_PRESSED_KEYS == 6

KB_REPORT_COUNT == 8

KB_MOD_KEY == 0

KB_RESERVED == 1

KB_KEY_CODE1 == 2

KB_MSGQ_MAX_MSGS == 16

\* enum kb_leds_idx
KB_LED_COUNT == 3

\* report types of the HID class requests (usb/class/hid.h)
HID_REPORT_TYPE_INPUT == 1

HID_REPORT_TYPE_OUTPUT == 2

HID_REPORT_TYPE_FEATURE == 3

\* errno.h
ENOTSUP == 134

\* CONFIG_KEYBOARD_USBD_REMOTE_WAKEUP: the build with remote wakeup
REMOTE_WAKEUP == TRUE

(* Bounds of the model *)

\* how many usage-code keys the key source of Spec and SpecKeys has
NumUsageKeys == 7

\* how many events the key source of SpecSys delivers
MaxProduced == 4

\* how many events the key source of SpecLive delivers
MaxLive == 3

\* how many events the key source of SpecBurst delivers: more than kb_msgq
\* holds
MaxBurst == 18

----------------------------------------------------------------------------
(* Key code translation *)

\* input_to_hid_key[]: entry i+1 is the HID usage code of INPUT_KEY code i;
\* 0 is "not mapped" (a gap of the designated initializer, or a modifier).
input_to_hid_key ==
    <<  0, 41, 30, 31, 32, 33, 34, 35, 36, 37,     \*   0 ..   9  RESERVED ESC 1..8
       38, 39, 45, 46, 42, 43, 20, 26,  8, 21,     \*  10 ..  19  9 0 - = BKSP TAB Q W E R
       23, 28, 24, 12, 18, 19, 47, 48, 40,  0,     \*  20 ..  29  T Y U I O P [ ] ENTER LCTRL
        4, 22,  7,  9, 10, 11, 13, 14, 15, 51,     \*  30 ..  39  A S D F G H J K L ;
       52, 53,  0, 49, 29, 27,  6, 25,  5, 17,     \*  40 ..  49  ' ` LSHIFT \ Z X C V B N
       16, 54, 55, 56,  0, 85,  0, 44, 57, 58,     \*  50 ..  59  M , . / RSHIFT KP* LALT SPACE CAPS F1
       59, 60, 61, 62, 63, 64, 65, 66, 67, 83,     \*  60 ..  69  F2..F10 NUMLOCK
       71, 95, 96, 97, 86, 92, 93, 94, 87, 89,     \*  70 ..  79  SCROLL KP7 KP8 KP9 KP- KP4 KP5 KP6 KP+ KP1
       90, 91, 98, 99,  0,  0,  0, 68, 69,  0,     \*  80 ..  89  KP2 KP3 KP0 KPDOT gap gap gap F11 F12 gap
        0,  0,  0,  0,  0,  0, 88,  0, 84, 70,     \*  90 ..  99  gaps KPENTER RCTRL KP/ SYSRQ
        0,  0, 74, 82, 75, 80, 79, 77, 81, 78,     \* 100 .. 109  RALT gap HOME UP PGUP LEFT RIGHT END DOWN PGDN
       73, 76,  0,  0,  0,  0,  0,  0,  0, 72,     \* 110 .. 119  INSERT DELETE gaps PAUSE
        0,  0,  0,  0,  0,  0,  0, 101 >>          \* 120 .. 127  gaps LMETA RMETA COMPOSE

INPUT_TO_HID_TABLE_SIZE == Len(input_to_hid_key)

INPUT_KEY_LEFTCTRL == 29

INPUT_KEY_LEFTSHIFT == 42

INPUT_KEY_RIGHTSHIFT == 54

INPUT_KEY_LEFTALT == 56

INPUT_KEY_RIGHTCTRL == 97

INPUT_KEY_RIGHTALT == 100

INPUT_KEY_LEFTMETA == 125

INPUT_KEY_RIGHTMETA == 126

ModifierCodes ==
    {INPUT_KEY_LEFTCTRL, INPUT_KEY_LEFTSHIFT, INPUT_KEY_LEFTALT,
     INPUT_KEY_LEFTMETA, INPUT_KEY_RIGHTCTRL, INPUT_KEY_RIGHTSHIFT,
     INPUT_KEY_RIGHTALT, INPUT_KEY_RIGHTMETA}

\* Faulty variant of get_modifier_bit: the first case label is INPUT_KEY_A,
\* the code after INPUT_KEY_LEFTCTRL
get_modifier_bit_wrong_label(input_code) ==
    CASE input_code = INPUT_KEY_LEFTCTRL + 1 -> 1
      [] input_code = INPUT_KEY_LEFTSHIFT  -> 2
      [] input_code = INPUT_KEY_LEFTALT    -> 4
      [] input_code = INPUT_KEY_LEFTMETA   -> 8
      [] input_code = INPUT_KEY_RIGHTCTRL  -> 16
      [] input_code = INPUT_KEY_RIGHTSHIFT -> 32
      [] input_code = INPUT_KEY_RIGHTALT   -> 64
      [] input_code = INPUT_KEY_RIGHTMETA  -> 128
      [] OTHER -> 0

\* get_modifier_bit(): the HID_KBD_MODIFIER_* bit of a modifier key, else 0
get_modifier_bit(input_code) ==
    CASE input_code = INPUT_KEY_LEFTCTRL   -> 1
      [] input_code = INPUT_KEY_LEFTSHIFT  -> 2
      [] input_code = INPUT_KEY_LEFTALT    -> 4
      [] input_code = INPUT_KEY_LEFTMETA   -> 8
      [] input_code = INPUT_KEY_RIGHTCTRL  -> 16
      [] input_code = INPUT_KEY_RIGHTSHIFT -> 32
      [] input_code = INPUT_KEY_RIGHTALT   -> 64
      [] input_code = INPUT_KEY_RIGHTMETA  -> 128
      [] OTHER -> 0

\* input_to_hid(): bounds-checked table lookup
input_to_hid(input_code) ==
    IF input_code < INPUT_TO_HID_TABLE_SIZE
    THEN input_to_hid_key[input_code + 1]
    ELSE 0

----------------------------------------------------------------------------
(* Bit operations on uint8_t *)

Bit(x, k) == (x \div (2 ^ k)) % 2

\* a | b
BitOr(a, b) ==
    LET or(k) == IF Bit(a, k) = 1 \/ Bit(b, k) = 1 THEN 2 ^ k ELSE 0
    IN  or(0) + or(1) + or(2) + or(3) + or(4) + or(5) + or(6) + or(7)

\* a & ~b, truncated to 8 bits
BitAndNot(a, b) ==
    LET andnot(k) == IF Bit(a, k) = 1 /\ Bit(b, k) = 0 THEN 2 ^ k ELSE 0
    IN  andnot(0) + andnot(1) + andnot(2) + andnot(3) + andnot(4) + andnot(5)
        + andnot(6) + andnot(7)

----------------------------------------------------------------------------
(* The rollover array *)

Slots == 0..(MAX_PRESSED_KEYS - 1)

\* the index the scan "for (i = 0; i < count; i++) if (keys[i] == hid_key)"
\* stops at, or count when it runs to the end
ScanIndex(keys, count, hid_key) ==
    LET hits == {i \in Slots : i < count /\ keys[i] = hid_key}
    IN  IF hits = {} THEN count
        ELSE CHOOSE i \in hits : \A j \in hits : i <= j

\* Faulty variants of add_pressed_key, used to show that the properties below
\* depend on it.
\* "<=" for "<" in the room check: a seventh key is counted
add_pressed_key_no_limit(keys, count, hid_key) ==
    IF ScanIndex(keys, count, hid_key) < count
    THEN [keys |-> keys, count |-> count, ret |-> TRUE]
    ELSE IF count <= MAX_PRESSED_KEYS
         THEN [keys  |-> [i \in Slots |-> IF i = count THEN hid_key ELSE keys[i]],
               count |-> (count + 1) % 256,
               ret   |-> TRUE]
         ELSE [keys |-> keys, count |-> count, ret |-> FALSE]

\* no scan for a key already pressed
add_pressed_key_no_scan(keys, count, hid_key) ==
    IF count < MAX_PRESSED_KEYS
    THEN [keys  |-> [keys EXCEPT ![count] = hid_key],
          count |-> (count + 1) % 256,
          ret   |-> TRUE]
    ELSE [keys |-> keys, count |-> count, ret |-> FALSE]

\* the scan starts at index 1: the oldest key is never found
add_pressed_key_scan_from_1(keys, count, hid_key) ==
    IF \E i \in Slots : 1 <= i /\ i < count /\ keys[i] = hid_key
    THEN [keys |-> keys, count |-> count, ret |-> TRUE]
    ELSE IF count < MAX_PRESSED_KEYS
         THEN [keys  |-> [keys EXCEPT ![count] = hid_key],
               count |-> (count + 1) % 256,
               ret   |-> TRUE]
         ELSE [keys |-> keys, count |-> count, ret |-> FALSE]

\* a full array takes the new key in its last slot
add_pressed_key_overwrite_last(keys, count, hid_key) ==
    IF ScanIndex(keys, count, hid_key) < count
    THEN [keys |-> keys, count |-> count, ret |-> TRUE]
    ELSE IF count < MAX_PRESSED_KEYS
         THEN [keys  |-> [keys EXCEPT ![count] = hid_key],
               count |-> (count + 1) % 256,
               ret   |-> TRUE]
         ELSE [keys  |-> [keys EXCEPT ![MAX_PRESSED_KEYS - 1] = hid_key],
               count |-> count,
               ret   |-> TRUE]

\* add_pressed_key(): the array, the count and the value returned
add_pressed_key(keys, count, hid_key) ==
    IF ScanIndex(keys, count, hid_key) < count
    THEN [keys |-> keys, count |-> count, ret |-> TRUE]
    ELSE IF count < MAX_PRESSED_KEYS
         THEN [keys  |-> [keys EXCEPT ![count] = hid_key],
               count |-> (count + 1) % 256,
               ret   |-> TRUE]
         ELSE [keys |-> keys, count |-> count, ret |-> FALSE]

\* Faulty variants of remove_pressed_key.
\* the shift loop is missing: the count drops, the entries stay
remove_pressed_key_no_shift(keys, count, hid_key) ==
    IF ScanIndex(keys, count, hid_key) < count
    THEN [keys |-> keys, count |-> count - 1]
    ELSE [keys |-> keys, count |-> count]

\* "pressed_count--" is missing
remove_pressed_key_no_decrement(keys, count, hid_key) ==
    LET i == ScanIndex(keys, count, hid_key)
    IN  IF i < count
        THEN [keys  |-> [j \in Slots |->
                            IF i <= j /\ j < count - 1 THEN keys[j + 1]
                            ELSE keys[j]],
              count |-> count]
        ELSE [keys |-> keys, count |-> count]

\* the scan stops one short, "i < pressed_count - 1": the last entry is
\* never found
remove_pressed_key_scan_short(keys, count, hid_key) ==
    LET i == ScanIndex(keys, count, hid_key)
    IN  IF i < count - 1
        THEN [keys  |-> [j \in Slots |->
                            IF i <= j /\ j < count - 1 THEN keys[j + 1]
                            ELSE keys[j]],
              count |-> count - 1]
        ELSE [keys |-> keys, count |-> count]

\* remove_pressed_key(): on the first match, shift the later entries down by
\* one (the entry at the old last index keeps its value) and decrement
remove_pressed_key(keys, count, hid_key) ==
    LET i == ScanIndex(keys, count, hid_key)
    IN  IF i < count
        THEN [keys  |-> [j \in Slots |->
                            IF i <= j /\ j < count - 1 THEN keys[j + 1]
                            ELSE keys[j]],
              count |-> count - 1]
        ELSE [keys |-> keys, count |-> count]

----------------------------------------------------------------------------
(* The report *)

ReportIdx == 0..(KB_REPORT_COUNT - 1)

\* memset(report, 0, KB_REPORT_COUNT)
ZeroReport == [b \in ReportIdx |-> 0]

\* the buffer the HID class hands to kb_get_report, as it is before the call:
\* bytes that are no report, so that a write to it shows
CallerBuf == [b \in ReportIdx |-> 170]

LedIdx == 0..(KB_LED_COUNT - 1)

\* Faulty variant of build_hid_report: the memset is missing, so a slot that
\* is not written keeps the byte of the previous report
build_hid_report_no_memset(keys, count, mods) ==
    [b \in ReportIdx |->
        IF b = KB_MOD_KEY THEN mods
        ELSE IF b = KB_RESERVED THEN 0
        ELSE IF b - KB_KEY_CODE1 < count /\ b - KB_KEY_CODE1 < MAX_PRESSED_KEYS
             THEN keys[b - KB_KEY_CODE1]
             ELSE report[b]]

\* build_hid_report(): clear, then the modifier byte, the reserved byte and
\* one slot per tracked key
build_hid_report(keys, count, mods) ==
    [b \in ReportIdx |->
        IF b = KB_MOD_KEY THEN mods
        ELSE IF b = KB_RESERVED THEN 0
        ELSE IF b - KB_KEY_CODE1 < count /\ b - KB_KEY_CODE1 < MAX_PRESSED_KEYS
             THEN keys[b - KB_KEY_CODE1]
             ELSE ZeroReport[b]]

----------------------------------------------------------------------------
(* process_key_event *)

\* the branch process_key_event takes for an event, named as the design names
\* the outcomes
FoldBranch(keys, count, input_code, pressed) ==
    LET hid_key == input_to_hid(input_code)
    IN  IF get_modifier_bit(input_code) # 0
        THEN (IF pressed THEN "ModSet" ELSE "ModClear")
        ELSE IF hid_key = 0 THEN "Unmapped"
        ELSE IF pressed
             THEN (IF ScanIndex(keys, count, hid_key) < count THEN "AlreadyPresent"
                   ELSE IF add_pressed_key(keys, count, hid_key).ret THEN "Inserted"
                   ELSE "Rejected")
             ELSE (IF ScanIndex(keys, count, hid_key) < count THEN "Removed"
                   ELSE "NotPresent")

\* Faulty variant of the modifier branch: "^=" for "&= ~" on release
FoldMods_toggle(mods, input_code, pressed) ==
    LET mod_bit == get_modifier_bit(input_code)
    IN  IF mod_bit # 0
        THEN (IF pressed THEN BitOr(mods, mod_bit)
              ELSE IF BitAndNot(mods, mod_bit) = mods THEN BitOr(mods, mod_bit)
              ELSE BitAndNot(mods, mod_bit))
        ELSE mods

\* "&=" without the "~" on release
FoldMods_missing_not(mods, input_code, pressed) ==
    LET mod_bit == get_modifier_bit(input_code)
    IN  IF mod_bit # 0
        THEN (IF pressed THEN BitOr(mods, mod_bit)
              ELSE BitAndNot(mods, BitAndNot(255, mod_bit)))
        ELSE mods

\* modifier_state after the event
FoldMods(mods, input_code, pressed) ==
    LET mod_bit == get_modifier_bit(input_code)
    IN  IF mod_bit # 0
        THEN (IF pressed THEN BitOr(mods, mod_bit) ELSE BitAndNot(mods, mod_bit))
        ELSE mods

\* Faulty variant of the regular key branch: the test "hid_key != 0" is
\* missing, so an unmapped code is tracked as usage code 0
FoldKeys_no_zero_check(keys, count, input_code, pressed) ==
    LET hid_key == input_to_hid(input_code)
    IN  IF get_modifier_bit(input_code) # 0
        THEN [keys |-> keys, count |-> count]
        ELSE IF pressed
             THEN [keys  |-> add_pressed_key(keys, count, hid_key).keys,
                   count |-> add_pressed_key(keys, count, hid_key).count]
             ELSE remove_pressed_key(keys, count, hid_key)

\* pressed_keys and pressed_count after the event
FoldKeys(keys, count, input_code, pressed) ==
    LET hid_key == input_to_hid(input_code)
    IN  IF get_modifier_bit(input_code) # 0 \/ hid_key = 0
        THEN [keys |-> keys, count |-> count]
        ELSE IF pressed
             THEN [keys  |-> add_pressed_key(keys, count, hid_key).keys,
                   count |-> add_pressed_key(keys, count, hid_key).count]
             ELSE remove_pressed_key(keys, count, hid_key)

\* Entries of pressed_keys at or past pressed_count are dead storage: every
\* loop of main.c that reads the array stops below pressed_count
\* (add_pressed_key and remove_pressed_key scan i < pressed_count, the shift
\* reads j + 1 <= pressed_count - 1, build_hid_report copies i < pressed_count).
\* remove_pressed_key leaves the old last entry in place; the state keeps dead
\* entries at 0, their value at start, so that states differing only in dead
\* storage are one state.
LiveKeys(keys, count) == [i \in Slots |-> IF i < count THEN keys[i] ELSE 0]

\* process_key_event(input_code, pressed), with its closing build_hid_report()
process_key_event(input_code, pressed) ==
    LET k == FoldKeys(pressed_keys, pressed_count, input_code, pressed)
        m == FoldMods(modifier_state, input_code, pressed)
    IN  /\ pressed_keys' = LiveKeys(k.keys, k.count)
        /\ pressed_count' = k.count
        /\ modifier_state' = m
        /\ report' = build_hid_report(k.keys, k.count, m)
        /\ built' = report'
        /\ fold_result' = FoldBranch(pressed_keys, pressed_count, input_code, pressed)
        /\ last_press' = IF input_code \in ModifierCodes
                         THEN [last_press EXCEPT ![input_code] = pressed]
                         ELSE last_press

----------------------------------------------------------------------------
(* The key sources *)

\* INPUT_KEY codes of usage-code keys: A S D F G H J K L
UsageKeyOrder == <<30, 31, 32, 33, 34, 35, 36, 37, 38>>

UsageInputs == {UsageKeyOrder[i] : i \in 1..NumUsageKeys}

\* a gap of the table and the first code past its end
UnmappedInputs == {84, 128}

\* Spec: the usage-code keys and one modifier
FoldInputs == UsageInputs \cup {INPUT_KEY_LEFTSHIFT}

\* SpecMod: the eight modifiers, two usage-code keys, the unmapped codes
ModUsageInputs == {30, 31}

ModInputs == ModifierCodes \cup ModUsageInputs \cup UnmappedInputs

----------------------------------------------------------------------------
(* Initial state: zero-initialised statics, an empty queue, main about to
   call k_msgq_get *)

Init ==
    /\ pressed_keys = [i \in Slots |-> 0]
    /\ pressed_count = 0
    /\ modifier_state = 0
    /\ report = ZeroReport
    /\ fold_result = "None"
    /\ last_press = [c \in ModifierCodes |-> FALSE]
    /\ kb_msgq = <<>>
    /\ pc = "get"
    /\ kb_evt = [code |-> 0, value |-> 0]   \* not read before k_msgq_get fills it
    /\ kb_ready = FALSE
    /\ suspended = FALSE
    /\ tx_op = "none"
    /\ tx_report = ZeroReport
    /\ tx_ret = 0
    /\ tx_failed = FALSE
    /\ accepted = <<>>
    /\ folded = <<>>
    /\ dropped = 0
    /\ put_ret = 0                          \* no call yet
    /\ key_hist = [held |-> {}, refused |-> FALSE]
    /\ built = ZeroReport
    /\ build_i = 0
    /\ get_call = [type |-> 0, len |-> 0, ret |-> 0, buf |-> CallerBuf,
                   built |-> ZeroReport, target |-> ZeroReport]  \* no call yet
    /\ set_call = [type |-> 0, buf0 |-> 0, ret |-> 0]   \* no call yet
    /\ led_pins = [i \in LedIdx |-> 0]      \* GPIO_OUTPUT_INACTIVE
    /\ kb_duration = 0

\* one call of process_key_event, nothing else running
Fold(input_code, pressed) ==
    /\ process_key_event(input_code, pressed)
    /\ UNCHANGED <<loopVars, chanVars, usbVars, hidVars>>

\* SpecHeld: seven usage-code keys, one more than the array takes, and one
\* modifier
HeldInputs == {30, 31, 32, 33, 34, 35, 36, INPUT_KEY_LEFTSHIFT}

\* one call of process_key_event, with the history of the keys kept; a
\* press of a key that is down is its autorepeat
HeldFold(input_code, pressed) ==
    /\ process_key_event(input_code, pressed)
    /\ key_hist' =
          [held    |-> IF pressed THEN key_hist.held \cup {input_code}
                       ELSE key_hist.held \ {input_code},
           refused |-> key_hist.refused
                          \/ FoldBranch(pressed_keys, pressed_count,
                                        input_code, pressed) = "Rejected"]
    /\ UNCHANGED <<loopVars, kb_msgq, accepted, dropped, put_ret, usbVars,
                   hidVars>>

NextHeld == \E c \in HeldInputs, p \in BOOLEAN : HeldFold(c, p)

SpecHeld == Init /\ [][NextHeld]_vars

Next == \E c \in FoldInputs, p \in BOOLEAN : Fold(c, p)

Spec == Init /\ [][Next]_vars

\* the usage-code keys alone
NextKeys == \E c \in UsageInputs, p \in BOOLEAN : Fold(c, p)

SpecKeys == Init /\ [][NextKeys]_vars

NextMod == \E c \in ModInputs, p \in BOOLEAN : Fold(c, p)

SpecMod == Init /\ [][NextMod]_vars

----------------------------------------------------------------------------
(* The event channel, the main loop and the transport *)

\* SpecSys: one usage-code key and one modifier
SysInputs == {30, INPUT_KEY_LEFTSHIFT}

\* Faulty variant of the enqueue: no capacity check, the queue grows
k_msgq_put_no_limit(q, e) == [q |-> Append(q, e), ret |-> 0]

\* k_msgq_put(&kb_msgq, &kb_evt, K_NO_WAIT): 0 and the event appended when
\* there is room, an error and the queue as it was when there is none
k_msgq_put(q, e) ==
    IF Len(q) < KB_MSGQ_MAX_MSGS
    THEN [q |-> Append(q, e), ret |-> 0]
    ELSE [q |-> q, ret |-> -1]

\* input_cb(): an event of another type is ignored; a key event is queued
\* without waiting, and only logged when the queue is full
input_cb(type, code, value) ==
    /\ IF type # "INPUT_EV_KEY"
       THEN UNCHANGED chanVars
       ELSE LET e == [code |-> code, value |-> value]
                r == k_msgq_put(kb_msgq, e)
            IN  /\ kb_msgq' = r.q
                /\ accepted' = IF r.ret = 0 THEN Append(accepted, e) ELSE accepted
                /\ dropped' = IF r.ret = 0 THEN dropped ELSE dropped + 1
                /\ put_ret' = r.ret
                /\ UNCHANGED key_hist
    /\ UNCHANGED <<coreVars, foldVars, loopVars, usbVars, hidVars>>

\* Faulty variant of the dequeue: K_NO_WAIT with the result ignored, so that
\* on an empty queue the loop goes on with what kb_evt held
main_get_no_wait ==
    /\ pc = "get"
    /\ IF kb_msgq # <<>>
       THEN /\ kb_evt' = Head(kb_msgq)
            /\ kb_msgq' = Tail(kb_msgq)
       ELSE UNCHANGED <<kb_evt, kb_msgq>>
    /\ pc' = "process"
    /\ UNCHANGED <<coreVars, foldVars, usbVars, hidVars, txVars,
                   folded, build_i, accepted, dropped, put_ret, key_hist>>

\* main: k_msgq_get(&kb_msgq, &kb_evt, K_FOREVER) waits for an event and
\* takes the oldest
main_get ==
    /\ pc = "get"
    /\ kb_msgq # <<>>
    /\ kb_evt' = Head(kb_msgq)
    /\ kb_msgq' = Tail(kb_msgq)
    /\ pc' = "process"
    /\ UNCHANGED <<coreVars, foldVars, usbVars, hidVars, txVars,
                   folded, build_i, accepted, dropped, put_ret, key_hist>>

\* main: process_key_event(kb_evt.code, kb_evt.value != 0)
main_process ==
    /\ pc = "process"
    /\ process_key_event(kb_evt.code, kb_evt.value # 0)
    /\ folded' = Append(folded, kb_evt)
    /\ pc' = "submit"
    /\ UNCHANGED <<chanVars, usbVars, hidVars, kb_evt, txVars, build_i>>

\* what usbd_wakeup_request and hid_device_submit_report return: 0, or a
\* negative errno (here -EIO)
TransportRets == {0, -5}

\* Faulty variant of the end of the iteration: the test of kb_ready is
\* missing
main_submit_no_ready_check ==
    /\ pc = "submit"
    /\ IF REMOTE_WAKEUP /\ suspended
       THEN IF kb_evt.value # 0
            THEN /\ tx_op' = "wakeup"
                 /\ \E ret \in TransportRets : tx_ret' = ret
                 /\ UNCHANGED <<tx_report, tx_failed>>
            ELSE /\ tx_op' = "suspended"
                 /\ UNCHANGED <<tx_report, tx_ret, tx_failed>>
       ELSE /\ tx_op' = "submit"
            /\ tx_report' = report
            /\ \E ret \in TransportRets :
                  /\ tx_ret' = ret
                  /\ tx_failed' = (tx_failed \/ ret # 0)
    /\ pc' = "get"
    /\ UNCHANGED <<coreVars, foldVars, chanVars, usbVars, hidVars, kb_evt,
                   folded, build_i>>

\* Faulty variant of the end of the iteration: main waits for kb_ready
\* instead of going on to the next event
main_submit_wait_ready ==
    /\ pc = "submit"
    /\ kb_ready
    /\ IF REMOTE_WAKEUP /\ suspended
       THEN IF kb_evt.value # 0
            THEN /\ tx_op' = "wakeup"
                 /\ \E ret \in TransportRets : tx_ret' = ret
                 /\ UNCHANGED <<tx_report, tx_failed>>
            ELSE /\ tx_op' = "suspended"
                 /\ UNCHANGED <<tx_report, tx_ret, tx_failed>>
       ELSE /\ tx_op' = "submit"
            /\ tx_report' = report
            /\ \E ret \in TransportRets :
                  /\ tx_ret' = ret
                  /\ tx_failed' = (tx_failed \/ ret # 0)
    /\ pc' = "get"
    /\ UNCHANGED <<coreVars, foldVars, chanVars, usbVars, hidVars, kb_evt,
                   folded, build_i>>

\* Faulty variant of the end of the iteration: a failed submission is tried
\* again before the next event is taken
main_submit_retry ==
    /\ pc = "submit"
    /\ IF ~kb_ready
       THEN /\ tx_op' = "not_ready"
            /\ pc' = "get"
            /\ UNCHANGED <<tx_report, tx_ret, tx_failed>>
       ELSE IF REMOTE_WAKEUP /\ suspended
            THEN /\ pc' = "get"
                 /\ IF kb_evt.value # 0
                    THEN /\ tx_op' = "wakeup"
                         /\ \E ret \in TransportRets : tx_ret' = ret
                         /\ UNCHANGED <<tx_report, tx_failed>>
                    ELSE /\ tx_op' = "suspended"
                         /\ UNCHANGED <<tx_report, tx_ret, tx_failed>>
            ELSE /\ tx_op' = "submit"
                 /\ tx_report' = report
                 /\ \E ret \in TransportRets :
                       /\ tx_ret' = ret
                       /\ tx_failed' = (tx_failed \/ ret # 0)
                       /\ pc' = IF ret # 0 THEN "submit" ELSE "get"
    /\ UNCHANGED <<coreVars, foldVars, chanVars, usbVars, hidVars, kb_evt,
                   folded, build_i>>

\* main: the rest of the iteration: nothing when not ready; when suspended a
\* wakeup request for a press and no report; else the report is submitted.
\* A failing usbd_wakeup_request or hid_device_submit_report is only logged.
main_submit ==
    /\ pc = "submit"
    /\ IF ~kb_ready
       THEN /\ tx_op' = "not_ready"
            /\ UNCHANGED <<tx_report, tx_ret, tx_failed>>
       ELSE IF REMOTE_WAKEUP /\ suspended
            THEN IF kb_evt.value # 0
                 THEN /\ tx_op' = "wakeup"
                      /\ \E ret \in TransportRets : tx_ret' = ret
                      /\ UNCHANGED <<tx_report, tx_failed>>
                 ELSE /\ tx_op' = "suspended"
                      /\ UNCHANGED <<tx_report, tx_ret, tx_failed>>
            ELSE /\ tx_op' = "submit"
                 /\ tx_report' = report
                 /\ \E ret \in TransportRets :
                       /\ tx_ret' = ret
                       /\ tx_failed' = (tx_failed \/ ret # 0)
    /\ pc' = "get"
    /\ UNCHANGED <<coreVars, foldVars, chanVars, usbVars, hidVars, kb_evt,
                   folded, build_i>>

\* kb_iface_ready()
kb_iface_ready(ready) ==
    /\ kb_ready' = ready
    /\ UNCHANGED <<coreVars, foldVars, loopVars, chanVars, hidVars, suspended>>

\* the bus suspends or resumes: what usbd_is_suspended() will answer
usbd_suspend_resume ==
    /\ suspended' = ~suspended
    /\ UNCHANGED <<coreVars, foldVars, loopVars, chanVars, hidVars, kb_ready>>

\* the input subsystem reports one more event, of the keys of SpecSys
KeySource ==
    /\ Len(accepted) + dropped < MaxProduced
    /\ \E type \in {"INPUT_EV_KEY", "INPUT_EV_ABS"}, code \in SysInputs,
          value \in {0, 1} : input_cb(type, code, value)

NextSys ==
    \/ KeySource
    \/ main_get
    \/ main_process
    \/ main_submit
    \/ \E ready \in BOOLEAN : kb_iface_ready(ready)
    \/ usbd_suspend_resume

SpecSys == Init /\ [][NextSys]_vars

\* the input subsystem reports one more event, of the keys of SpecSys
KeyLive ==
    /\ Len(accepted) + dropped < MaxLive
    /\ \E type \in {"INPUT_EV_KEY", "INPUT_EV_ABS"}, code \in SysInputs,
          value \in {0, 1} : input_cb(type, code, value)

NextLive ==
    \/ KeyLive
    \/ main_get
    \/ main_process
    \/ main_submit
    \/ \E ready \in BOOLEAN : kb_iface_ready(ready)
    \/ usbd_suspend_resume

\* SpecLive: the actions of SpecSys with the main thread scheduled: it is
\* the lowest context of the three but runs whenever the input callback and
\* the USB stack are idle, so each of its steps that stays possible is taken
MainFair ==
    /\ WF_vars(main_get)
    /\ WF_vars(main_process)
    /\ WF_vars(main_submit)

SpecLive == Init /\ [][NextLive]_vars /\ MainFair

\* SpecBurst: one key, INPUT_KEY_A, whose events come faster than main
\* folds them
BurstInput == 30

\* the key goes down, up, down, ...: MaxBurst key events of one physical key
KeyBurst ==
    /\ Len(accepted) + dropped < MaxBurst
    /\ input_cb("INPUT_EV_KEY", BurstInput,
                IF (Len(accepted) + dropped) % 2 = 0 THEN 1 ELSE 0)

NextBurst ==
    \/ KeyBurst
    \/ main_get
    \/ main_process
    \/ main_submit
    \/ \E ready \in BOOLEAN : kb_iface_ready(ready)

SpecBurst == Init /\ [][NextBurst]_vars

----------------------------------------------------------------------------
(* The transport callbacks. The HID class calls them on the thread of the
   USB device stack; main.c takes no lock and masks nothing around report,
   so a callback can run between any two statements of the main loop. *)

GetReportTypes == {HID_REPORT_TYPE_INPUT, HID_REPORT_TYPE_FEATURE}

\* a short length and the two lengths around KB_REPORT_COUNT
GetReportLens == {4, KB_REPORT_COUNT - 1, KB_REPORT_COUNT, 64}

\* Faulty variant of kb_get_report: ">" for ">=" in the length test
GetReport_len_gt(type, len, buf) ==
    IF type = HID_REPORT_TYPE_INPUT /\ len > KB_REPORT_COUNT
    THEN [ret |-> KB_REPORT_COUNT, buf |-> report]
    ELSE [ret |-> 0, buf |-> buf]

\* kb_get_report(): the value returned and the caller's buffer after it
GetReport(type, len, buf) ==
    IF type = HID_REPORT_TYPE_INPUT /\ len >= KB_REPORT_COUNT
    THEN [ret |-> KB_REPORT_COUNT, buf |-> report]
    ELSE [ret |-> 0, buf |-> buf]

\* kb_get_report(dev, type, id, len, buf)
kb_get_report(type, len) ==
    LET r == GetReport(type, len, CallerBuf)
    IN  /\ get_call' = [type |-> type, len |-> len, ret |-> r.ret,
                        buf |-> r.buf, built |-> built,
                        target |-> build_hid_report(pressed_keys, pressed_count,
                                                    modifier_state)]
        /\ UNCHANGED <<coreVars, foldVars, loopVars, chanVars, usbVars,
                       set_call, led_pins, kb_duration>>

SetReportTypes == {HID_REPORT_TYPE_OUTPUT, HID_REPORT_TYPE_FEATURE}

\* buf[0] of a set-report or output-report transfer: no LED, NumLock alone,
\* CapsLock with ScrollLock, all bits of the byte
SetReportBytes == {0, 1, 6, 255}

\* kb_leds[i].port != NULL: the board defines the aliases led0, led1, led2
kb_leds_port == [i \in LedIdx |-> TRUE]

\* Faulty variant of kb_set_report: BIT(i + 1) for BIT(i)
SetReport_shifted_bit(type, b0, pins) ==
    IF type # HID_REPORT_TYPE_OUTPUT
    THEN [ret |-> -ENOTSUP, pins |-> pins]
    ELSE [ret  |-> 0,
          pins |-> [i \in LedIdx |->
                      IF kb_leds_port[i] THEN Bit(b0, i + 1) ELSE pins[i]]]

\* kb_set_report(): the value returned and the LED lines after it;
\* gpio_pin_set_dt(&kb_leds[i], buf[0] & BIT(i)) sets line i active when the
\* value is not 0
SetReport(type, b0, pins) ==
    IF type # HID_REPORT_TYPE_OUTPUT
    THEN [ret |-> -ENOTSUP, pins |-> pins]
    ELSE [ret  |-> 0,
          pins |-> [i \in LedIdx |->
                      IF kb_leds_port[i] THEN Bit(b0, i) ELSE pins[i]]]

\* kb_set_report(dev, type, id, len, buf), buf holding at least one byte
kb_set_report(type, b0) ==
    LET r == SetReport(type, b0, led_pins)
    IN  /\ set_call' = [type |-> type, buf0 |-> b0, ret |-> r.ret]
        /\ led_pins' = r.pins
        /\ UNCHANGED <<coreVars, foldVars, loopVars, chanVars, usbVars,
                       get_call, kb_duration>>

\* kb_output_report(dev, len, buf)
kb_output_report(b0) == kb_set_report(HID_REPORT_TYPE_OUTPUT, b0)

\* idle durations the host sets
IdleDurations == {0, 500}

\* kb_set_idle(dev, id, duration)
kb_set_idle(duration) ==
    /\ kb_duration' = duration
    /\ UNCHANGED <<coreVars, foldVars, loopVars, chanVars, usbVars,
                   get_call, set_call, led_pins>>

\* SpecHid: one usage-code key and one modifier folded, and the callbacks,
\* each call run to its end before the next step
HidInputs == {30, INPUT_KEY_LEFTSHIFT}

NextHid ==
    \/ \E c \in HidInputs, p \in BOOLEAN : Fold(c, p)
    \/ \E type \in GetReportTypes, len \in GetReportLens :
          kb_get_report(type, len)
    \/ \E type \in SetReportTypes, b0 \in SetReportBytes :
          kb_set_report(type, b0)
    \/ \E b0 \in SetReportBytes : kb_output_report(b0)
    \/ \E duration \in IdleDurations : kb_set_idle(duration)
    \/ \E ready \in BOOLEAN : kb_iface_ready(ready)

SpecHid == Init /\ [][NextHid]_vars

(* process_key_event statement by statement, for the interleaving with the
   callbacks: the state update, then build_hid_report's memset, its two
   header bytes and its copy loop. *)

\* process_key_event up to the call of build_hid_report
race_fold ==
    /\ pc = "process"
    /\ LET k == FoldKeys(pressed_keys, pressed_count, kb_evt.code,
                         kb_evt.value # 0)
       IN  /\ pressed_keys' = LiveKeys(k.keys, k.count)
           /\ pressed_count' = k.count
    /\ modifier_state' = FoldMods(modifier_state, kb_evt.code, kb_evt.value # 0)
    /\ fold_result' = FoldBranch(pressed_keys, pressed_count, kb_evt.code,
                                 kb_evt.value # 0)
    /\ last_press' = IF kb_evt.code \in ModifierCodes
                     THEN [last_press EXCEPT ![kb_evt.code] = kb_evt.value # 0]
                     ELSE last_press
    /\ folded' = Append(folded, kb_evt)
    /\ pc' = "build_memset"
    /\ UNCHANGED <<report, built, chanVars, usbVars, hidVars, kb_evt, txVars, build_i>>

\* build_hid_report: memset(report, 0, KB_REPORT_COUNT)
race_memset ==
    /\ pc = "build_memset"
    /\ report' = ZeroReport
    /\ pc' = "build_header"
    /\ UNCHANGED <<pressed_keys, pressed_count, modifier_state, foldVars,
                   chanVars, usbVars, hidVars, kb_evt, txVars,
                   folded, build_i>>

\* build_hid_report: report[KB_MOD_KEY] = modifier_state;
\* report[KB_RESERVED] = 0; then i = 0
race_header ==
    /\ pc = "build_header"
    /\ report' = [report EXCEPT ![KB_MOD_KEY] = modifier_state,
                                ![KB_RESERVED] = 0]
    /\ build_i' = 0
    /\ pc' = "build_keys"
    /\ UNCHANGED <<pressed_keys, pressed_count, modifier_state, foldVars,
                   chanVars, usbVars, hidVars, kb_evt, txVars,
                   folded>>

\* build_hid_report: one test of the loop condition, and one pass of the
\* body when it holds; when it fails the report is complete
race_keys ==
    /\ pc = "build_keys"
    /\ IF build_i < pressed_count /\ build_i < MAX_PRESSED_KEYS
       THEN /\ report' = [report EXCEPT
                            ![KB_KEY_CODE1 + build_i] = pressed_keys[build_i]]
            /\ build_i' = build_i + 1
            /\ UNCHANGED <<pc, built>>
       ELSE /\ built' = report
            /\ build_i' = 0
            /\ pc' = "submit"
            /\ UNCHANGED report
    /\ UNCHANGED <<pressed_keys, pressed_count, modifier_state, fold_result,
                   last_press, chanVars, usbVars, hidVars, kb_evt, txVars, folded>>

NextRace ==
    \/ KeySource
    \/ main_get
    \/ race_fold
    \/ race_memset
    \/ race_header
    \/ race_keys
    \/ main_submit
    \/ kb_get_report(HID_REPORT_TYPE_INPUT, KB_REPORT_COUNT)

SpecRace == Init /\ [][NextRace]_vars

----------------------------------------------------------------------------
(* Properties *)

\* the tracked usage codes, oldest first
RolloverSet == [i \in 1..pressed_count |-> pressed_keys[i - 1]]

\* whether the bit of modifier key m is set in mods
ModBitSet(mods, m) == (mods \div get_modifier_bit(m)) % 2 = 1

TypeOK ==
    /\ pressed_keys \in [Slots -> 0..255]
    /\ pressed_count \in 0..255
    /\ modifier_state \in 0..255
    /\ report \in [ReportIdx -> 0..255]
    /\ last_press \in [ModifierCodes -> BOOLEAN]
    /\ kb_ready \in BOOLEAN
    /\ suspended \in BOOLEAN
    /\ pc \in {"get", "process", "submit", "build_memset", "build_header",
               "build_keys"}
    /\ build_i \in 0..MAX_PRESSED_KEYS
    /\ led_pins \in [LedIdx -> {0, 1}]
    /\ tx_failed \in BOOLEAN
    /\ Len(kb_msgq) <= KB_MSGQ_MAX_MSGS

\* What LiveKeys relies on: with any one value in every dead entry, each
\* event is folded into the same live entries, count, branch and report.
DeadStorageUnread ==
    \A v \in {0} \cup {input_to_hid(u) : u \in UsageInputs} :
        LET dirty == [i \in Slots |->
                        IF i < pressed_count THEN pressed_keys[i] ELSE v]
        IN  \A c \in FoldInputs, p \in BOOLEAN :
                LET a == FoldKeys(dirty, pressed_count, c, p)
                    b == FoldKeys(pressed_keys, pressed_count, c, p)
                IN  /\ a.count = b.count
                    /\ LiveKeys(a.keys, a.count) = LiveKeys(b.keys, b.count)
                    /\ FoldBranch(dirty, pressed_count, c, p)
                          = FoldBranch(pressed_keys, pressed_count, c, p)
                    /\ build_hid_report(a.keys, a.count, modifier_state)
                          = build_hid_report(b.keys, b.count, modifier_state)

\* C1: whatever press and release events process_key_event has folded,
\* repeated presses included, pressed_count is at most 6.
C1_CountAtMostSix == pressed_count <= MAX_PRESSED_KEYS

\* six keys are tracked and the press of a seventh has just been refused
C1_Witness == pressed_count = MAX_PRESSED_KEYS /\ fold_result = "Rejected"

\* C2: the tracked entries pressed_keys[0 .. pressed_count-1] are pairwise
\* distinct in every reachable state.
C2_EntriesDistinct ==
    \A i, j \in Slots :
        (i < j /\ j < pressed_count) => pressed_keys[i] # pressed_keys[j]

\* the sixth distinct key has just been inserted
C2_Witness == pressed_count = MAX_PRESSED_KEYS /\ fold_result = "Inserted"

\* C3: after every process_key_event the report is byte 0 = modifier_state,
\* byte 1 = 0, byte 2+i = the i-th tracked code (non-zero) for i below
\* pressed_count and 0 for every later slot; before any event it is all zero.
C3_ReportIsBuild ==
    /\ report[KB_MOD_KEY] = modifier_state
    /\ report[KB_RESERVED] = 0
    /\ \A i \in Slots :
          /\ i < pressed_count =>
                /\ report[KB_KEY_CODE1 + i] = RolloverSet[i + 1]
                /\ report[KB_KEY_CODE1 + i] # 0
          /\ i >= pressed_count => report[KB_KEY_CODE1 + i] = 0
    /\ fold_result = "None" => \A b \in ReportIdx : report[b] = 0

\* a release has just vacated a slot, three keys and left shift stay held
C3_Witness ==
    /\ fold_result = "Removed"
    /\ pressed_count = 3
    /\ modifier_state = 2
    /\ report[KB_KEY_CODE1 + 2] # 0
    /\ report[KB_KEY_CODE1 + 3] = 0

\* C4: for each of the eight modifier keys, its bit of modifier_state is set
\* exactly when the most recent event folded for that key was a press.
C4_ModifierBitIffLastPress ==
    \A m \in ModifierCodes : ModBitSet(modifier_state, m) <=> last_press[m]

\* left ctrl and right meta are held, another modifier has just been released
C4_Witness ==
    /\ fold_result = "ModClear"
    /\ modifier_state = 129
    /\ last_press[INPUT_KEY_LEFTCTRL]
    /\ ~last_press[INPUT_KEY_LEFTSHIFT]

\* the usage codes tracked now
Tracked == {RolloverSet[i] : i \in 1..pressed_count}

\* the live entries of an array, oldest first
LiveSeq(keys, count) == [i \in 1..count |-> keys[i - 1]]

\* s without its entries equal to h
Without(s, h) ==
    LET keep(x) == x # h
    IN  SelectSeq(s, keep)

\* the tracked codes after a press of input code c and then its release,
\* both folded from the current state
RoundTrip(c) ==
    LET a == FoldKeys(pressed_keys, pressed_count, c, TRUE)
        b == FoldKeys(a.keys, a.count, c, FALSE)
    IN  LiveSeq(b.keys, b.count)

\* C5 as stated: from every reachable state and for every usage-code key c,
\* a press of c followed at once by its release gives back the tracked codes
\* of before, members and order.
C5_RoundTripAnyCode ==
    \A c \in UsageInputs : RoundTrip(c) = RolloverSet

\* C5 as amended: the round trip gives back the tracked codes of before when
\* c was not tracked before the press; when c was tracked the press changes
\* nothing and the release removes c.
C5_RoundTripUntracked ==
    \A c \in UsageInputs :
        IF input_to_hid(c) \in Tracked
        THEN RoundTrip(c) = Without(RolloverSet, input_to_hid(c))
        ELSE RoundTrip(c) = RolloverSet

\* a release has just removed a key while four others are held, and keys
\* outside the tracked ones exist
C5_Witness ==
    /\ fold_result = "Removed"
    /\ pressed_count = 4
    /\ \E c \in UsageInputs : input_to_hid(c) \notin Tracked

\* modifier_state after a press of modifier key m and then its release
ModRoundTrip(m) ==
    FoldMods(FoldMods(modifier_state, m, TRUE), m, FALSE)

\* C6 as stated: for every modifier key M, after press M then release M the
\* bit of M has the value it had before, and the other bits are unchanged.
C6_ModRoundTripAny ==
    \A m \in ModifierCodes :
        /\ ModBitSet(ModRoundTrip(m), m) <=> ModBitSet(modifier_state, m)
        /\ \A o \in ModifierCodes \ {m} :
              ModBitSet(ModRoundTrip(m), o) <=> ModBitSet(modifier_state, o)

\* C6 as amended: after press M then release M the other bits are unchanged
\* and the bit of M is clear, which is its value of before only when it was
\* clear before.
C6_ModRoundTripClear ==
    \A m \in ModifierCodes :
        /\ ~ModBitSet(ModRoundTrip(m), m)
        /\ ~ModBitSet(modifier_state, m) => ModRoundTrip(m) = modifier_state
        /\ \A o \in ModifierCodes \ {m} :
              ModBitSet(ModRoundTrip(m), o) <=> ModBitSet(modifier_state, o)

\* right shift has just been released while left alt and right ctrl are held
C6_Witness ==
    /\ fold_result = "ModClear"
    /\ modifier_state = 20
    /\ ~last_press[INPUT_KEY_RIGHTSHIFT]

\* C7: a press of a usage code already tracked leaves pressed_count, the
\* order of the entries and the report as they are, a full array included.
C7_DuplicatePressIdempotent ==
    \A c \in UsageInputs :
        input_to_hid(c) \in Tracked =>
            LET a == FoldKeys(pressed_keys, pressed_count, c, TRUE)
                m == FoldMods(modifier_state, c, TRUE)
            IN  /\ a.count = pressed_count
                /\ LiveSeq(a.keys, a.count) = RolloverSet
                /\ add_pressed_key(pressed_keys, pressed_count,
                                   input_to_hid(c)).ret
                /\ build_hid_report(a.keys, a.count, m) = report

\* a key already tracked has just been pressed again with the array full
C7_Witness == pressed_count = MAX_PRESSED_KEYS /\ fold_result = "AlreadyPresent"

\* C8: with six codes tracked, the press of an absent seventh is refused
\* (add_pressed_key returns false), the tracked codes and modifier_state stay
\* as they are, the report still carries the six codes in their order, and
\* the release of the refused code then changes nothing.
C8_SeventhPressRejected ==
    pressed_count = MAX_PRESSED_KEYS =>
        \A c \in UsageInputs :
            input_to_hid(c) \notin Tracked =>
                LET a  == FoldKeys(pressed_keys, pressed_count, c, TRUE)
                    m  == FoldMods(modifier_state, c, TRUE)
                    r  == build_hid_report(a.keys, a.count, m)
                    a2 == FoldKeys(a.keys, a.count, c, FALSE)
                    m2 == FoldMods(m, c, FALSE)
                IN  /\ ~add_pressed_key(pressed_keys, pressed_count,
                                        input_to_hid(c)).ret
                    /\ a.count = pressed_count
                    /\ LiveSeq(a.keys, a.count) = RolloverSet
                    /\ m = modifier_state
                    /\ r = report
                    /\ \A i \in Slots : r[KB_KEY_CODE1 + i] = RolloverSet[i + 1]
                    /\ a2 = a
                    /\ m2 = m
                    /\ build_hid_report(a2.keys, a2.count, m2) = report

\* the press of a seventh key has just been refused and the report holds the
\* six tracked codes
C8_Witness ==
    /\ fold_result = "Rejected"
    /\ \A i \in Slots : report[KB_KEY_CODE1 + i] = RolloverSet[i + 1]
    /\ \A i \in Slots : report[KB_KEY_CODE1 + i] # 0

\* C9: a release of usage code c: when c is tracked, the tracked codes become
\* those of before without c, in the same order, one fewer, and the report
\* slot of the old last entry becomes 0; when c is not tracked nothing
\* changes.
C9_ReleaseCompacts ==
    \A c \in UsageInputs :
        LET h == input_to_hid(c)
            a == FoldKeys(pressed_keys, pressed_count, c, FALSE)
            r == build_hid_report(a.keys, a.count,
                                  FoldMods(modifier_state, c, FALSE))
        IN  IF h \in Tracked
            THEN /\ a.count = pressed_count - 1
                 /\ LiveSeq(a.keys, a.count) = Without(RolloverSet, h)
                 /\ r[KB_KEY_CODE1 + pressed_count - 1] = 0
                 /\ \A i \in Slots :
                       i < a.count => r[KB_KEY_CODE1 + i] = Without(RolloverSet, h)[i + 1]
            ELSE /\ a.count = pressed_count
                 /\ LiveSeq(a.keys, a.count) = RolloverSet
                 /\ r = report

\* a release has just removed one of six keys: five are left in slots 0..4
\* and the sixth slot is 0
C9_Witness ==
    /\ fold_result = "Removed"
    /\ pressed_count = MAX_PRESSED_KEYS - 1
    /\ report[KB_KEY_CODE1 + 4] # 0
    /\ report[KB_KEY_CODE1 + 5] = 0

IsPrefix(s, t) ==
    /\ Len(s) <= Len(t)
    /\ \A i \in 1..Len(s) : s[i] = t[i]

\* C10: at every point the events the main loop has folded, in the order it
\* folded them, are a prefix of the events k_msgq_put accepted from input_cb,
\* in the order it accepted them.
C10_FoldedPrefixOfAccepted == IsPrefix(folded, accepted)

\* three events have been folded, neighbours differing, and a fourth waits
\* in the queue
C10_Witness ==
    /\ Len(folded) = 3
    /\ folded[1] # folded[2]
    /\ folded[2] # folded[3]
    /\ Len(kb_msgq) = 1
    /\ kb_msgq[1] # folded[3]

\* what was accepted is what was folded, then the event main holds between
\* the dequeue and the fold, then the queue
AcceptedAccountedFor ==
    accepted = folded \o (IF pc = "process" THEN <<kb_evt>> ELSE <<>>) \o kb_msgq

\* a step in which input_cb called k_msgq_put
PutStep == Len(accepted') + dropped' = Len(accepted) + dropped + 1

\* C11: kb_msgq never holds more than 16 events; a k_msgq_put on a queue of 16
\* returns at once with an error, the event is dropped, and the queue,
\* modifier_state, the tracked keys and the report stay as they are; a
\* k_msgq_put on a queue of fewer (main has dequeued) appends the event and
\* returns 0.
C11_EnqueueDropsWhenFull ==
    /\ [](Len(kb_msgq) <= KB_MSGQ_MAX_MSGS)
    /\ [][PutStep =>
            /\ UNCHANGED coreVars
            /\ IF Len(kb_msgq) = KB_MSGQ_MAX_MSGS
               THEN /\ put_ret' # 0
                    /\ dropped' = dropped + 1
                    /\ kb_msgq' = kb_msgq
                    /\ accepted' = accepted
               ELSE /\ put_ret' = 0
                    /\ dropped' = dropped
                    /\ Len(accepted') = Len(accepted) + 1
                    /\ kb_msgq' = Append(kb_msgq, accepted'[Len(accepted')])
         ]_vars

\* an event was dropped on a full queue, main has dequeued since, and the
\* last k_msgq_put succeeded and filled the queue again
C11_Witness ==
    /\ dropped >= 1
    /\ put_ret = 0
    /\ Len(kb_msgq) = KB_MSGQ_MAX_MSGS
    /\ Len(folded) >= 1

\* the statement-by-statement build ends with the report process_key_event
\* is modelled to leave in one step
RaceBuildAgrees ==
    pc \in {"get", "process", "submit"} =>
        /\ report = build_hid_report(pressed_keys, pressed_count, modifier_state)
        /\ built = report

\* C12: whenever kb_get_report runs, also while main is inside
\* process_key_event or build_hid_report, the eight bytes it returns are a
\* completely built report, never a cleared or half-filled one: the report
\* as the last completed build_hid_report left it (or, from the moment the
\* running build has written its last byte, the report of that build).
C12_GetReportNeverTorn ==
    get_call.ret = KB_REPORT_COUNT =>
        get_call.buf \in {get_call.built, get_call.target}

\* C13: a kb_get_report for the input report returns KB_REPORT_COUNT, with
\* the eight bytes of the report in the caller's buffer, exactly when len is
\* at least 8; with a smaller len it returns 0 and leaves the buffer as it
\* was; and no call changes the tracked keys, modifier_state, the report,
\* kb_duration or kb_ready.
C13_GetReportLength ==
    /\ [](/\ get_call.type = HID_REPORT_TYPE_INPUT =>
                (get_call.ret = KB_REPORT_COUNT
                    <=> get_call.len >= KB_REPORT_COUNT)
          /\ get_call.ret = KB_REPORT_COUNT => get_call.buf = get_call.built
          /\ get_call.ret # KB_REPORT_COUNT =>
                get_call.ret = 0 /\ get_call.buf = CallerBuf)
    /\ [][get_call' # get_call =>
            UNCHANGED <<coreVars, kb_duration, kb_ready>>]_vars

\* with left shift and A held, a get for the input report with len 7 has
\* just been answered with 0 and an untouched buffer
C13_Witness ==
    /\ get_call.type = HID_REPORT_TYPE_INPUT
    /\ get_call.len = KB_REPORT_COUNT - 1
    /\ get_call.ret = 0
    /\ get_call.buf = CallerBuf
    /\ get_call.built[KB_MOD_KEY] = 2
    /\ get_call.built[KB_KEY_CODE1] = 4

\* C16: after a kb_set_report of type output every LED line i of 0, 1, 2 is
\* active exactly when bit i of buf[0] is set, and 0 is returned; a
\* kb_set_report of another type returns -ENOTSUP and changes no LED line;
\* no call changes the tracked keys, modifier_state, the report, kb_duration
\* or kb_ready.
C16_SetReportLeds ==
    /\ [](/\ set_call.type = HID_REPORT_TYPE_OUTPUT =>
                /\ set_call.ret = 0
                /\ \A i \in LedIdx :
                      led_pins[i] = 1 <=> (set_call.buf0 \div (2 ^ i)) % 2 = 1
          /\ set_call.type \in SetReportTypes \ {HID_REPORT_TYPE_OUTPUT} =>
                set_call.ret = -ENOTSUP)
    /\ [][set_call' # set_call =>
            /\ UNCHANGED <<coreVars, kb_duration, kb_ready>>
            /\ set_call'.type # HID_REPORT_TYPE_OUTPUT => led_pins' = led_pins
         ]_vars

\* the host has just written 0x01 with type output while a key is held:
\* NumLock is on, CapsLock and ScrollLock are off, the report is untouched
C16_Witness ==
    /\ set_call = [type |-> HID_REPORT_TYPE_OUTPUT, buf0 |-> 1, ret |-> 0]
    /\ led_pins = [i \in LedIdx |-> IF i = 0 THEN 1 ELSE 0]
    /\ report[KB_KEY_CODE1] = 4

\* the step that ends an iteration of the main loop
SubmitStep == pc = "submit" /\ pc' = "get"

\* the step hands no report to hid_device_submit_report
NoReport == tx_op' # "submit" /\ tx_report' = tx_report

\* the step hands the rebuilt report to hid_device_submit_report
ReportSubmitted == tx_op' = "submit" /\ tx_report' = report

\* C14 as stated: at the end of an iteration, nothing is submitted when
\* kb_ready is false; when the bus is suspended and the event is a press a
\* wakeup is requested and no report submitted; in every other case, a
\* release while suspended included, the report is submitted.
C14_SubmitUnlessPressWhileSuspended ==
    [][SubmitStep =>
        IF ~kb_ready THEN NoReport /\ tx_op' # "wakeup"
        ELSE IF suspended /\ kb_evt.value # 0
             THEN tx_op' = "wakeup" /\ NoReport
             ELSE ReportSubmitted
      ]_vars

\* C14 as amended: when main reaches the end of an iteration the event is
\* folded and the report rebuilt; nothing is submitted when kb_ready is
\* false; when the bus is suspended no report is submitted, for a press or a
\* release, and a wakeup is requested exactly for a press; otherwise the
\* report is submitted.
C14_NoSubmitWhileSuspended ==
    /\ [](pc = "submit" =>
            /\ folded # <<>>
            /\ folded[Len(folded)] = kb_evt
            /\ report = build_hid_report(pressed_keys, pressed_count,
                                         modifier_state))
    /\ [][SubmitStep =>
            IF ~kb_ready THEN NoReport /\ tx_op' # "wakeup"
            ELSE IF suspended
                 THEN NoReport /\ (tx_op' = "wakeup" <=> kb_evt.value # 0)
                 ELSE ReportSubmitted
         ]_vars

\* ready and suspended, the release of a key held before has just been
\* folded and the iteration has ended without a report or a wakeup
C14_Witness ==
    /\ pc = "get"
    /\ tx_op = "suspended"
    /\ kb_ready
    /\ suspended
    /\ kb_evt.value = 0
    /\ fold_result = "Removed"
    /\ tx_report # report

RECURSIVE FoldAll(_)
\* the tracked keys and modifier_state that folding the events evts, one
\* after the other, gives from the state at start
FoldAll(evts) ==
    IF evts = <<>>
    THEN [keys |-> [i \in Slots |-> 0], count |-> 0, mods |-> 0]
    ELSE LET s == FoldAll(SubSeq(evts, 1, Len(evts) - 1))
             e == evts[Len(evts)]
             k == FoldKeys(s.keys, s.count, e.code, e.value # 0)
         IN  [keys  |-> k.keys,
              count |-> k.count,
              mods  |-> FoldMods(s.mods, e.code, e.value # 0)]

\* the report of the state that folding evts gives
ReportOf(evts) ==
    build_hid_report(FoldAll(evts).keys, FoldAll(evts).count, FoldAll(evts).mods)

\* C15: every call of usbd_wakeup_request or hid_device_submit_report,
\* failing or not, ends the iteration (the next call comes after the next
\* dequeue and fold) and leaves the tracked keys, modifier_state and the
\* report as they are; every report handed to hid_device_submit_report,
\* after failed submissions too, is the report of the state that all events
\* folded so far give.
C15_FailedSubmitNotRetried ==
    /\ []((tx_op = "submit" /\ pc \in {"get", "process"}) =>
             tx_report = ReportOf(folded))
    /\ [][txVars' # txVars =>
            /\ pc = "submit"
            /\ pc' = "get"
            /\ UNCHANGED <<coreVars, folded, kb_msgq>>
            /\ tx_op' = "submit" => tx_report' = ReportOf(folded)
         ]_vars

\* a submission has failed earlier; the one that has just succeeded carries
\* left shift and A, the state of now
C15_Witness ==
    /\ pc = "get"
    /\ tx_op = "submit"
    /\ tx_ret = 0
    /\ tx_failed
    /\ tx_report[KB_MOD_KEY] = 2
    /\ tx_report[KB_KEY_CODE1] = 4
    /\ tx_report = report

\* the codes of the table's range that the table maps to 0 and that are no
\* modifier
TableGaps ==
    {c \in 0..(INPUT_TO_HID_TABLE_SIZE - 1) : input_to_hid_key[c + 1] = 0}
        \ ModifierCodes

\* codes at and past the end of the table, up to the largest uint16_t
BeyondTable ==
    {INPUT_TO_HID_TABLE_SIZE, INPUT_TO_HID_TABLE_SIZE + 1, 255, 256, 65535}

\* the codes of the table's range that the table maps to a usage code
TableUsageInputs ==
    {c \in 0..(INPUT_TO_HID_TABLE_SIZE - 1) : input_to_hid_key[c + 1] # 0}

\* the tracked keys as a record, as FoldKeys gives them
KeysNow == [keys |-> pressed_keys, count |-> pressed_count]

\* C17: a press or a release of an unmapped code, a gap of the table or a
\* code at or past its end, takes the "unmapped" branch and leaves the
\* tracked keys, the count, modifier_state and every byte of the report as
\* they are.
C17_UnmappedNoChange ==
    /\ [](\A c \in TableGaps \cup BeyondTable, p \in BOOLEAN :
            LET k == FoldKeys(pressed_keys, pressed_count, c, p)
                m == FoldMods(modifier_state, c, p)
            IN  /\ FoldBranch(pressed_keys, pressed_count, c, p) = "Unmapped"
                /\ k = KeysNow
                /\ m = modifier_state
                /\ build_hid_report(k.keys, k.count, m) = report)
    /\ [][fold_result' = "Unmapped" => UNCHANGED coreVars]_vars

\* an unmapped code has just been folded while two keys and two modifiers
\* are held
C17_Witness ==
    /\ fold_result = "Unmapped"
    /\ pressed_count = 2
    /\ modifier_state = 3
    /\ report[KB_KEY_CODE1 + 1] # 0

\* C18: an event of any of the eight modifier keys takes the modifier branch
\* and leaves the tracked keys and the key slots of the report as they are;
\* an event of a key with a usage code takes a usage-code branch and leaves
\* modifier_state as it is; no key slot of the report ever holds the usage
\* code of a modifier (0xE0 .. 0xE7).
C18_DisjointOwnership ==
    /\ [](/\ \A m \in ModifierCodes, p \in BOOLEAN :
                LET k == FoldKeys(pressed_keys, pressed_count, m, p)
                    r == build_hid_report(k.keys, k.count,
                                          FoldMods(modifier_state, m, p))
                IN  /\ FoldBranch(pressed_keys, pressed_count, m, p)
                          = (IF p THEN "ModSet" ELSE "ModClear")
                    /\ k = KeysNow
                    /\ \A i \in Slots :
                          r[KB_KEY_CODE1 + i] = report[KB_KEY_CODE1 + i]
          /\ \A c \in TableUsageInputs, p \in BOOLEAN :
                /\ FoldBranch(pressed_keys, pressed_count, c, p)
                      \notin {"ModSet", "ModClear", "Unmapped"}
                /\ FoldMods(modifier_state, c, p) = modifier_state
          /\ \A i \in Slots : report[KB_KEY_CODE1 + i] \notin 224..231)
    /\ [][/\ fold_result' \in {"ModSet", "ModClear"} =>
                UNCHANGED <<pressed_keys, pressed_count>>
          /\ fold_result' \in {"Inserted", "AlreadyPresent", "Rejected",
                                "Removed", "NotPresent"} =>
                UNCHANGED modifier_state
         ]_vars

\* right alt has just been pressed while A and S are held: the modifier byte
\* has changed, the two key slots have not
C18_Witness ==
    /\ fold_result = "ModSet"
    /\ modifier_state = 64
    /\ pressed_count = 2
    /\ report[KB_KEY_CODE1] = 4
    /\ report[KB_KEY_CODE1 + 1] = 22
    /\ report[KB_KEY_CODE1 + 2] = 0

\* C19: with the main loop scheduled, every event k_msgq_put accepted is
\* dequeued and folded, once and in its turn: the n-th accepted event is in
\* time the n-th folded one, and at every moment the accepted events are the
\* folded ones, then the one main holds, then the queued ones. Nothing the
\* transport does (not ready, suspended, a failed wakeup request or
\* submission) holds the loop.
C19_AcceptedEventuallyFolded ==
    /\ [](accepted = folded
                        \o (IF pc = "process" THEN <<kb_evt>> ELSE <<>>)
                        \o kb_msgq)
    /\ \A n \in 1..MaxLive :
          (Len(accepted) >= n) ~> (Len(folded) >= n /\ folded[n] = accepted[n])

\* all events of the source have been accepted and folded, the last one
\* while the transport was ready and failing, and an earlier one without a
\* report
C19_Witness ==
    /\ Len(accepted) = MaxLive
    /\ folded = accepted
    /\ pc = "get"
    /\ tx_op = "submit"
    /\ tx_ret # 0
    /\ kb_msgq = <<>>

\* no key is stuck: every tracked usage code is that of a key whose last
\* event was a press, and so is every set modifier bit
NoStuckKey ==
    /\ Tracked \subseteq {input_to_hid(c) : c \in key_hist.held}
    /\ \A m \in ModifierCodes :
          ModBitSet(modifier_state, m) => m \in key_hist.held

\* C20: when every event has been folded in the order it was produced and,
\* for each key, the last event is a release, no key is tracked,
\* modifier_state is 0 and the report is all zero, also after presses that
\* were refused with six keys tracked and after repeated presses.
C20_AllReleasedZeroReport ==
    key_hist.held = {} =>
        /\ pressed_count = 0
        /\ modifier_state = 0
        /\ report = ZeroReport

\* a press was refused on a full array, and now the last key has been
\* released: the release of a key that was not tracked
C20_Witness ==
    /\ key_hist.held = {}
    /\ key_hist.refused
    /\ fold_result = "NotPresent"
    /\ report = ZeroReport

=============================================================================
